---------------------------- MODULE Spec2Model ----------------------------
(***************************************************************************)
(* Model of the retrieval-augmented chat application (main.py,             *)
(* initialize.py, utils.py, components.py).                                *)
(*                                                                         *)
(* Python values are tagged records, so that values of different Python    *)
(* types can be compared:  None, str (a sequence of characters), int,      *)
(* bool, and dict (a function from key strings to values; "k in d" is      *)
(* k \in DOMAIN d).  Non-ASCII characters of the source's string literals  *)
(* are transliterated to ASCII.                                            *)
(***************************************************************************)
EXTENDS Integers, Sequences, FiniteSets, TLC

VARIABLES
    \* ---- the Streamlit session (st.session_state) and one script run ----
    messages,       \* st.session_state.messages
    chat_history,   \* st.session_state.chat_history
    retriever,      \* st.session_state.retriever (None while the key is absent)
    mode,           \* st.session_state.mode
    pc,             \* position of the current script run in main.py
    chat_message,   \* main.py: chat_message of the current run
    llm_response,   \* main.py: llm_response of the current run
    chain_retriever,\* utils.get_llm_response: the retriever the chain was built on
    init_local,     \* locals of the last initialize_retriever call of this run
    built,          \* number of retrievers constructed (db.as_retriever calls)
    \* ---- response display applied to one retrieval result ----
    dresp,          \* the llm_response handed to a display function
    dout,           \* what the display function did with it
    \* ---- page resolution applied to one metadata mapping ----
    pmeta,          \* a chunk's metadata
    pout            \* what was computed from it

session_vars == <<messages, chat_history, retriever, mode, pc, chat_message,
                  llm_response, chain_retriever, init_local, built>>
display_vars == <<dresp, dout>>
page_vars    == <<pmeta, pout>>
vars == <<messages, chat_history, retriever, mode, pc, chat_message,
          llm_response, chain_retriever, init_local, built, dresp, dout, pmeta, pout>>

-----------------------------------------------------------------------------
(* Python values *)

None == [t |-> "none"]
Str(s) == [t |-> "str", s |-> s]
Int_(n) == [t |-> "int", n |-> n]
Bool_(b) == [t |-> "bool", b |-> b]
Dict(d) == [t |-> "dict", d |-> d]

EmptyDict == [k \in {} |-> None]

\* dict.get(k): the value, or None when the key is missing
Get(d, k) == IF k \in DOMAIN d THEN d[k] ELSE None

\* d with d[k] = v
Put(d, k, v) == [x \in DOMAIN d \cup {k} |-> IF x = k THEN v ELSE d[x]]

\* Python truthiness
Truthy(v) ==
    CASE v.t = "none" -> FALSE
      [] v.t = "str"  -> Len(v.s) > 0
      [] v.t = "int"  -> v.n # 0
      [] v.t = "bool" -> v.b
      [] v.t = "dict" -> DOMAIN v.d # {}
      [] OTHER        -> TRUE

\* Python "a or b"
PyOr(a, b) == IF Truthy(a) THEN a ELSE b

IsStr(v) == v.t = "str"

-----------------------------------------------------------------------------
(* Strings: sequences of one-character strings *)

UpperToLower ==
    [c \in {"A","B","C","D","E","F","G","H","I","J","K","L","M","N","O","P",
            "Q","R","S","T","U","V","W","X","Y","Z"} |->
        CASE c = "A" -> "a" [] c = "B" -> "b" [] c = "C" -> "c" [] c = "D" -> "d"
          [] c = "E" -> "e" [] c = "F" -> "f" [] c = "G" -> "g" [] c = "H" -> "h"
          [] c = "I" -> "i" [] c = "J" -> "j" [] c = "K" -> "k" [] c = "L" -> "l"
          [] c = "M" -> "m" [] c = "N" -> "n" [] c = "O" -> "o" [] c = "P" -> "p"
          [] c = "Q" -> "q" [] c = "R" -> "r" [] c = "S" -> "s" [] c = "T" -> "t"
          [] c = "U" -> "u" [] c = "V" -> "v" [] c = "W" -> "w" [] c = "X" -> "x"
          [] c = "Y" -> "y" [] c = "Z" -> "z"]

\* str.lower()
Lower(s) == [i \in 1..Len(s) |-> IF s[i] \in DOMAIN UpperToLower
                                 THEN UpperToLower[s[i]] ELSE s[i]]

\* str.endswith(suf), str.startswith(pre)
EndsWith(s, suf) ==
    /\ Len(s) >= Len(suf)
    /\ SubSeq(s, Len(s) - Len(suf) + 1, Len(s)) = suf
StartsWith(s, pre) ==
    /\ Len(s) >= Len(pre)
    /\ SubSeq(s, 1, Len(pre)) = pre

\* sub occurs in s as a contiguous run of characters
Contains(s, sub) ==
    \E i \in 0..(Len(s) - Len(sub)) : SubSeq(s, i + 1, i + Len(sub)) = sub

DigitChars == <<"0","1","2","3","4","5","6","7","8","9">>
DigitOf(c) == CHOOSE d \in 0..9 : DigitChars[d + 1] = c
IsDigit(c) == \E d \in 0..9 : DigitChars[d + 1] = c

\* str(n) for n >= 0
RECURSIVE Digits(_)
Digits(n) == IF n < 10 THEN <<DigitChars[n + 1]>>
             ELSE Digits(n \div 10) \o <<DigitChars[(n % 10) + 1]>>

RECURSIVE DigitsValue(_)
DigitsValue(s) == IF s = <<>> THEN 0
                  ELSE 10 * DigitsValue(SubSeq(s, 1, Len(s) - 1)) + DigitOf(s[Len(s)])

AllDigits(s) == Len(s) > 0 /\ \A i \in 1..Len(s) : IsDigit(s[i])

\* int(v) succeeds: an int, or a string of decimal digits with an optional sign
CanInt(v) ==
    \/ v.t = "int"
    \/ /\ v.t = "str"
       /\ \/ AllDigits(v.s)
          \/ Len(v.s) > 1 /\ v.s[1] \in {"-", "+"} /\ AllDigits(Tail(v.s))

\* int(v), where it succeeds (everywhere else int(v) raises)
ToInt(v) ==
    IF v.t = "int" THEN v.n
    ELSE IF v.s[1] = "-" THEN 0 - DigitsValue(Tail(v.s))
    ELSE IF v.s[1] = "+" THEN DigitsValue(Tail(v.s))
    ELSE DigitsValue(v.s)

-----------------------------------------------------------------------------
(* components.py: _label_with_page_if_pdf; utils.py: page resolution *)

DOT_PDF == <<".", "p", "d", "f">>

\* the page annotation appended to a label, for the 1-based page n
PageAnnotation(n) == <<"(", "P", "a", "g", "e", "N", "o", ".">> \o Digits(n) \o <<")">>

\* path.lower().endswith(".pdf"), for a str
IsPdfPath(path) == IsStr(path) /\ EndsWith(Lower(path.s), DOT_PDF)

\* components._label_with_page_if_pdf(path, page); an exception of int() is swallowed
label_with_page_if_pdf(path, page) ==
    IF IsPdfPath(path) /\ page # None /\ CanInt(page) /\ ToInt(page) >= 0
    THEN Str(path.s \o PageAnnotation(ToInt(page) + 1))
    ELSE path

\* the body of get_pdf_page_number's "for k in direct_keys_zero_based" once int() succeeded
ZeroBasedPage(p) == IF p >= 0 THEN Int_(p + 1) ELSE None
\* the same for a 1-based key
OneBasedPage(p) == IF p >= 1 THEN Int_(p) ELSE None

\* "if k in meta: try: p = int(meta[k]) ..." reaches a return
Converts(d, k) == k \in DOMAIN d /\ CanInt(d[k])

LocKeys == <<"page_number", "page", "pageIndex", "pageNumber">>

\* the loop over the keys of loc, from the i-th key on
RECURSIVE LocPage(_, _)
LocPage(loc, i) ==
    IF i > Len(LocKeys) THEN None
    ELSE IF Converts(loc, LocKeys[i])
         THEN IF LocKeys[i] \in {"page", "pageIndex"}
              THEN ZeroBasedPage(ToInt(loc[LocKeys[i]]))
              ELSE OneBasedPage(ToInt(loc[LocKeys[i]]))
         ELSE LocPage(loc, i + 1)

\* get_pdf_page_number trying page_number before the 0-based keys
get_pdf_page_number_OneBasedFirst(meta) ==
    IF Converts(meta, "page_number") THEN OneBasedPage(ToInt(meta["page_number"]))
    ELSE IF Converts(meta, "page") THEN ZeroBasedPage(ToInt(meta["page"]))
    ELSE IF Converts(meta, "page_index") THEN ZeroBasedPage(ToInt(meta["page_index"]))
    ELSE IF Get(meta, "loc").t = "dict" THEN LocPage(Get(meta, "loc").d, 1)
    ELSE None

\* utils.get_pdf_page_number(meta), meta a dict
get_pdf_page_number(meta) ==
    IF Converts(meta, "page") THEN ZeroBasedPage(ToInt(meta["page"]))
    ELSE IF Converts(meta, "page_index") THEN ZeroBasedPage(ToInt(meta["page_index"]))
    ELSE IF Converts(meta, "page_number") THEN OneBasedPage(ToInt(meta["page_number"]))
    ELSE IF Get(meta, "loc").t = "dict" THEN LocPage(Get(meta, "loc").d, 1)
    ELSE None

\* utils.format_source_with_page_if_pdf(meta)
format_source_with_page_if_pdf(meta) ==
    LET src == PyOr(PyOr(PyOr(Get(meta, "source"), Get(meta, "file_path")),
                         Get(meta, "path")), Str(<<>>))
        p == get_pdf_page_number(meta)
    IN IF IsPdfPath(src) /\ Truthy(p)
       THEN Str(src.s \o PageAnnotation(p.n))
       ELSE src

-----------------------------------------------------------------------------
(* constants.py (not among the source files): the values the code refers to   *)
(* as ct.X.  Only their being distinct strings matters.                       *)

ANSWER_MODE_1 == Str(<<"ANSWER_MODE_1">>)
ANSWER_MODE_2 == Str(<<"ANSWER_MODE_2">>)
NO_DOC_MATCH_ANSWER == Str(<<"NO_DOC_MATCH_ANSWER">>)
NO_DOC_MATCH_MESSAGE == Str(<<"NO_DOC_MATCH_MESSAGE">>)
INQUIRY_NO_MATCH_ANSWER == Str(<<"INQUIRY_NO_MATCH_ANSWER">>)
LINK_SOURCE_ICON == Str(<<"LINK_SOURCE_ICON">>)
DOC_SOURCE_ICON == Str(<<"DOC_SOURCE_ICON">>)

-----------------------------------------------------------------------------
(* components.py: the two response displays *)

List(items) == [t |-> "list", items |-> items]
ListTruthy(v) == IF v.t = "list" THEN Len(v.items) > 0 ELSE Truthy(v)

HTTP == <<"h", "t", "t", "p">>

\* utils.get_source_icon(source) raises AttributeError unless source is a str
IconRaises(source) == ~IsStr(source)
get_source_icon(source) ==
    IF StartsWith(source.s, HTTP) THEN LINK_SOURCE_ICON ELSE DOC_SOURCE_ICON

\* one call of st.markdown / st.success / st.info / st.divider
Markdown(body) == [fn |-> "markdown", body |-> body, icon |-> None]
Success(body, icon) == [fn |-> "success", body |-> body, icon |-> icon]
Info(body, icon) == [fn |-> "info", body |-> body, icon |-> icon]
Divider == [fn |-> "divider", body |-> None, icon |-> None]

\* what a display function did: it returned content having rendered the
\* elements, or an exception left it
Returned(content, rendered) == [raised |-> FALSE, content |-> content, rendered |-> rendered]
Raised == [raised |-> TRUE, content |-> EmptyDict, rendered |-> <<>>]

MAIN_MESSAGE == Str(<<"main_message">>)
SUB_MESSAGE == Str(<<"sub_message">>)
SOURCE_MESSAGE == Str(<<"source_message">>)
SOURCE_HEADING == Str(<<"#", "#", "#", "#", "#", " ">> \o SOURCE_MESSAGE.s)

\* seen_paths before the loop over context[1:]
SeenInit(main_file_path) == IF Truthy(main_file_path) THEN {main_file_path} ELSE {}

\* SkipPath without the look-up in seen_paths
SkipPath_IgnoresSeen(file_path, seen_paths) == ~Truthy(file_path)

\* "if not sub_file_path or sub_file_path in seen_paths: continue"
SkipPath(file_path, seen_paths) == ~Truthy(file_path) \/ file_path \in seen_paths

\* the entry appended to sub_choices for a document
SubChoice(sub_file_path, sub_page_number) ==
    IF sub_page_number # None
    THEN [source |-> sub_file_path, page_number |-> sub_page_number]
    ELSE [source |-> sub_file_path]

\* the loop "for document in llm_response["context"][1:]"
RECURSIVE SubChoicesLoop(_, _, _)
SubChoicesLoop(documents, seen_paths, sub_choices) ==
    IF documents = <<>> THEN sub_choices
    ELSE LET document == Head(documents)
             sub_file_path == Get(document.metadata, "source")
         IN IF SkipPath(sub_file_path, seen_paths)
            THEN SubChoicesLoop(Tail(documents), seen_paths, sub_choices)
            ELSE SubChoicesLoop(Tail(documents), seen_paths \cup {sub_file_path},
                    Append(sub_choices,
                           SubChoice(sub_file_path, Get(document.metadata, "page"))))

SubRendered(sub_choices) ==
    [i \in 1..Len(sub_choices) |->
        Info(label_with_page_if_pdf(sub_choices[i].source, Get(sub_choices[i], "page_number")),
             get_source_icon(sub_choices[i].source))]

\* the guard of display_search_llm_response's first branch
HasMatch(llm) ==
    /\ ListTruthy(Get(llm, "context"))
    /\ Get(llm, "answer") # NO_DOC_MATCH_ANSWER

NoMatchContent ==
    [mode |-> ANSWER_MODE_1, answer |-> NO_DOC_MATCH_MESSAGE, no_file_path_flg |-> Bool_(TRUE)]

SearchContent(main_file_path, main_page_number, sub_choices) ==
    LET c0 == [mode |-> ANSWER_MODE_1, main_message |-> MAIN_MESSAGE,
               main_file_path |-> main_file_path]
        c1 == IF main_page_number # None
              THEN Put(c0, "main_page_number", main_page_number) ELSE c0
    IN IF sub_choices # <<>>
       THEN Put(Put(c1, "sub_message", SUB_MESSAGE), "sub_choices", List(sub_choices))
       ELSE c1

\* components.display_search_llm_response(llm_response)
display_search_llm_response(llm) ==
    IF HasMatch(llm)
    THEN LET context == llm["context"].items
             main_doc == context[1]
             main_file_path == Get(main_doc.metadata, "source")
             main_page_number == Get(main_doc.metadata, "page")
             sub_choices == SubChoicesLoop(Tail(context), SeenInit(main_file_path), <<>>)
         IN IF IconRaises(main_file_path) THEN Raised
            ELSE IF \E i \in 1..Len(sub_choices) : IconRaises(sub_choices[i].source)
            THEN Raised
            ELSE Returned(
                    SearchContent(main_file_path, main_page_number, sub_choices),
                    <<Markdown(MAIN_MESSAGE),
                      Success(label_with_page_if_pdf(main_file_path, main_page_number),
                              get_source_icon(main_file_path))>>
                    \o (IF sub_choices # <<>> THEN <<Markdown(SUB_MESSAGE)>> ELSE <<>>)
                    \o SubRendered(sub_choices))
    ELSE Returned(NoMatchContent, <<Markdown(NO_DOC_MATCH_MESSAGE)>>)

\* the loop "for document in (llm_response.get("context") or [])"; the result is
\* file_info_list, or "raised" when get_source_icon raises
RECURSIVE FileInfoLoop(_, _, _)
FileInfoLoop(documents, seen_paths, file_info_list) ==
    IF documents = <<>> THEN [raised |-> FALSE, list |-> file_info_list]
    ELSE LET meta == Head(documents).metadata
             file_path == PyOr(Get(meta, "source"), Get(meta, "file_path"))
         IN IF SkipPath(file_path, seen_paths)
            THEN FileInfoLoop(Tail(documents), seen_paths, file_info_list)
            ELSE IF IconRaises(file_path)
            THEN [raised |-> TRUE, list |-> file_info_list]
            ELSE FileInfoLoop(Tail(documents), seen_paths \cup {file_path},
                    Append(file_info_list,
                           [path |-> file_path,
                            label |-> label_with_page_if_pdf(file_path, Get(meta, "page"))]))

\* ShowsSources comparing with the search mode's sentinel
ShowsSources_WrongSentinel(llm) == Get(llm, "answer") # NO_DOC_MATCH_ANSWER

\* "if llm_response.get("answer") != ct.INQUIRY_NO_MATCH_ANSWER"
ShowsSources(llm) == Get(llm, "answer") # INQUIRY_NO_MATCH_ANSWER

\* llm_response.get("answer", "")
AnswerOrEmpty(llm) == IF "answer" \in DOMAIN llm THEN llm["answer"] ELSE Str(<<>>)

\* components.display_contact_llm_response(llm_response)
display_contact_llm_response(llm) ==
    LET content == [mode |-> ANSWER_MODE_2, answer |-> AnswerOrEmpty(llm)]
        context == IF ListTruthy(Get(llm, "context")) THEN llm["context"].items ELSE <<>>
        loop == FileInfoLoop(context, {}, <<>>)
    IN IF ShowsSources(llm)
       THEN IF loop.raised THEN Raised
            ELSE Returned(
                    Put(Put(content, "message", SOURCE_MESSAGE),
                        "file_info_list", List(loop.list)),
                    <<Markdown(AnswerOrEmpty(llm)), Divider, Markdown(SOURCE_HEADING)>>
                    \o [i \in 1..Len(loop.list) |->
                          Info(loop.list[i].label, get_source_icon(loop.list[i].path))])
       ELSE Returned(content, <<Markdown(AnswerOrEmpty(llm))>>)

-----------------------------------------------------------------------------
(* components.py: display_conversation_log, the replay of st.session_state.messages *)

\* what replaying one message did: it rendered the elements, or an exception left it
Shown(elements) == [raised |-> FALSE, elements |-> elements]
ReplayRaised == [raised |-> TRUE, elements |-> <<>>]

\* ReplayMainLabel without the stored page number
ReplayMainLabel_NoPage(content) == content["main_file_path"]

\* the label of the main document, from the stored payload
ReplayMainLabel(content) ==
    label_with_page_if_pdf(content["main_file_path"], Get(content, "main_page_number"))

\* the loop "for sub_choice in message["content"]["sub_choices"]"
ReplaySubChoices(content) ==
    IF "sub_message" \in DOMAIN content
    THEN <<Markdown(content["sub_message"])>>
         \o [i \in 1..Len(content["sub_choices"].items) |->
               Info(label_with_page_if_pdf(content["sub_choices"].items[i].source,
                                           Get(content["sub_choices"].items[i], "page_number")),
                    get_source_icon(content["sub_choices"].items[i].source))]
    ELSE <<>>

\* the search branch of display_conversation_log for one assistant payload
ReplaySearch(content) ==
    IF "no_file_path_flg" \notin DOMAIN content
    THEN IF IconRaises(content["main_file_path"]) THEN ReplayRaised
         ELSE IF /\ "sub_message" \in DOMAIN content
                 /\ \E i \in 1..Len(content["sub_choices"].items) :
                       IconRaises(content["sub_choices"].items[i].source)
         THEN ReplayRaised
         ELSE Shown(<<Markdown(content["main_message"]),
                      Success(ReplayMainLabel(content),
                              get_source_icon(content["main_file_path"]))>>
                    \o ReplaySubChoices(content))
    ELSE Shown(<<Markdown(content["answer"])>>)

\* one entry of file_info_list: a dict with path and label, or (older form) a str
ReplayItemPath(item) == IF "path" \in DOMAIN item THEN item.path ELSE item
ReplayItemLabel(item) == IF "path" \in DOMAIN item THEN item.label ELSE item

\* the inquiry branch of display_conversation_log for one assistant payload
ReplayContact(content) ==
    IF "file_info_list" \in DOMAIN content
    THEN IF \E i \in 1..Len(content["file_info_list"].items) :
               IconRaises(ReplayItemPath(content["file_info_list"].items[i]))
         THEN ReplayRaised
         ELSE Shown(<<Markdown(content["answer"]), Divider,
                      Markdown(Str(<<"#", "#", "#", "#", "#", " ">> \o content["message"].s))>>
                    \o [i \in 1..Len(content["file_info_list"].items) |->
                          Info(ReplayItemLabel(content["file_info_list"].items[i]),
                               get_source_icon(ReplayItemPath(content["file_info_list"].items[i])))])
    ELSE Shown(<<Markdown(content["answer"])>>)

\* the body of the loop of display_conversation_log for one message
ReplayMessage(message) ==
    IF message.role = "user" THEN Shown(<<Markdown(message.content)>>)
    ELSE IF message.content["mode"] = ANSWER_MODE_1 THEN ReplaySearch(message.content)
    ELSE ReplayContact(message.content)

\* components.display_conversation_log() over the list msgs: per message the
\* role of its st.chat_message block and what was rendered in it
display_conversation_log(msgs) ==
    [raised |-> \E i \in 1..Len(msgs.items) : ReplayMessage(msgs.items[i]).raised,
     rendered |-> [i \in 1..Len(msgs.items) |->
                      [role |-> msgs.items[i].role,
                       elements |-> ReplayMessage(msgs.items[i]).elements]]]

-----------------------------------------------------------------------------
(* Page resolution and labelling applied to one metadata mapping *)

MaxPage == 3

Absent == [t |-> "absent"]

\* the dict holding the keys of f whose value is not Absent
DictOf(f) == [k \in {x \in DOMAIN f : f[x] # Absent} |-> f[k]]

A_PDF == Str(<<"a", ".", "p", "d", "f">>)
B_PDF_UPPER == Str(<<"B", ".", "P", "D", "F">>)
C_TXT == Str(<<"c", ".", "t", "x", "t">>)
WEB_URL == Str(<<"h", "t", "t", "p", ":", "/", "/", "w">>)
EMPTY_STR == Str(<<>>)
BAD_PAGE == Str(<<"x">>)
NUM_PAGE == Str(<<"2">>)

PageInts == {Int_(n) : n \in (0 - 1)..MaxPage}
PageValues == {Absent, None, BAD_PAGE, NUM_PAGE} \cup PageInts
KeyValues == {Absent, BAD_PAGE} \cup PageInts
LocValues == {Absent, BAD_PAGE, Int_(0 - 1), Int_(0), Int_(MaxPage)}
LocDicts ==
    {Dict(DictOf([page_number |-> a, page |-> b, pageIndex |-> c, pageNumber |-> d])) :
        a \in LocValues, b \in LocValues, c \in LocValues, d \in LocValues}

\* metadata mappings: every combination of the direct keys with a few values of
\* loc, and every loc dict with direct keys that int() rejects or that are missing
MetaSet ==
    {DictOf([source |-> s, page |-> pg, page_index |-> pi, page_number |-> pn, loc |-> l]) :
        s \in {A_PDF, B_PDF_UPPER, C_TXT}, pg \in PageValues, pi \in KeyValues,
        pn \in KeyValues,
        l \in {Absent, BAD_PAGE, Dict([page |-> Int_(0)])}}
    \cup
    {DictOf([source |-> s, page |-> pg, page_index |-> pi, page_number |-> pn, loc |-> l]) :
        s \in {A_PDF, B_PDF_UPPER, C_TXT}, pg \in {Absent, None, BAD_PAGE},
        pi \in {Absent, BAD_PAGE}, pn \in {Absent, BAD_PAGE}, l \in LocDicts}

NoOutput == [op |-> "none"]

\* utils.get_pdf_page_number applied to the metadata
ResolvePage ==
    /\ pout = NoOutput
    /\ pout' = [op |-> "get_pdf_page_number", val |-> get_pdf_page_number(pmeta)]
    /\ UNCHANGED <<pmeta, session_vars, display_vars>>

\* utils.format_source_with_page_if_pdf applied to the metadata
FormatSource ==
    /\ pout = NoOutput
    /\ pout' = [op |-> "format_source_with_page_if_pdf",
                val |-> format_source_with_page_if_pdf(pmeta)]
    /\ UNCHANGED <<pmeta, session_vars, display_vars>>

\* the label the response displays show for a document with this metadata:
\* metadata.get("source"), metadata.get("page"), _label_with_page_if_pdf
DisplayLabel ==
    /\ pout = NoOutput
    /\ pout' = [op |-> "display_label",
                val |-> label_with_page_if_pdf(Get(pmeta, "source"), Get(pmeta, "page"))]
    /\ UNCHANGED <<pmeta, session_vars, display_vars>>

-----------------------------------------------------------------------------
(* initialize.py: loading the sources and building the retriever *)

\* the document one source item loads: its text is ordinary, made only of
\* characters cp932 cannot encode ("exotic"), or empty
Doc(item, text) == [source |-> item, text |-> text]

\* loader.load() of an item whose load does not raise
Loaded(item, load) ==
    <<Doc(item, CASE load = "ok" -> "text" [] load = "exotic" -> "exotic" [] OTHER -> "")>>

\* file_load(path, docs_all): an unsupported extension is skipped, a loader
\* that raises is not caught
file_load(file, docs_all) ==
    IF file.supported
    THEN IF file.load = "fail"
         THEN [raised |-> TRUE, docs |-> docs_all]
         ELSE [raised |-> FALSE, docs |-> docs_all \o Loaded(file.name, file.load)]
    ELSE [raised |-> FALSE, docs |-> docs_all]

\* recursive_file_check(path, docs_all); listdir(path) is the sequence of children
RECURSIVE recursive_file_check(_, _), CheckChildren(_, _)
recursive_file_check(node, docs_all) ==
    IF node.kind = "dir" THEN CheckChildren(node.children, docs_all)
    ELSE file_load(node, docs_all)
CheckChildren(children, docs_all) ==
    IF children = <<>> THEN [raised |-> FALSE, docs |-> docs_all]
    ELSE LET first == recursive_file_check(Head(children), docs_all)
         IN IF first.raised THEN first ELSE CheckChildren(Tail(children), first.docs)

\* the loop "for web_url in urls": a load that raises is logged and skipped
RECURSIVE WebLoop(_, _)
WebLoop(urls, web_docs_all) ==
    IF urls = <<>> THEN web_docs_all
    ELSE WebLoop(Tail(urls),
                 IF Head(urls).load = "fail" THEN web_docs_all
                 ELSE web_docs_all \o Loaded(Head(urls).name, Head(urls).load))

\* load_data_sources() in the environment env
load_data_sources(env) ==
    LET local == IF env.top_exists THEN recursive_file_check(env.top, <<>>)
                 ELSE [raised |-> FALSE, docs |-> <<>>]
    IN IF local.raised THEN [raised |-> TRUE, docs |-> local.docs]
       ELSE [raised |-> FALSE, docs |-> local.docs \o WebLoop(env.urls, <<>>)]

\* adjust_string(s): on Windows the characters cp932 cannot encode are dropped
adjust_string(text, is_win) == IF is_win /\ text = "exotic" THEN "" ELSE text

Normalize(docs, is_win) ==
    [i \in 1..Len(docs) |-> Doc(docs[i].source, adjust_string(docs[i].text, is_win))]

\* splitter.split_documents(docs_all): no chunk for an empty text, else the
\* document's chunks (one here)
RECURSIVE split_documents(_)
split_documents(docs) ==
    IF docs = <<>> THEN <<>>
    ELSE (IF Head(docs).text = "" THEN <<>> ELSE <<Head(docs)>>) \o split_documents(Tail(docs))

RetrieverValue(id) == [t |-> "retriever", id |-> id]

\* RetrieverPresent without the early return
RetrieverPresent_Never(r) == FALSE

\* "if "retriever" in st.session_state: return"
RetrieverPresent(r) == r # Absent

\* NoChunks without the check
NoChunks_Unchecked(chunks) == FALSE

\* "if not chunks: raise RuntimeError"
NoChunks(chunks) == chunks = <<>>

InitLocal(called, docs_all, nchunks, error) ==
    [called |-> called, docs_all |-> docs_all, nchunks |-> nchunks, error |-> error]

\* initialize_retriever() with st.session_state.retriever = r, in env, when n
\* retrievers were built before: the retriever key afterwards and the locals
initialize_retriever(r, env, n) ==
    IF RetrieverPresent(r) THEN [retriever |-> r, local |-> InitLocal("returned", <<>>, 0, "none")]
    ELSE IF ~env.api_key
    THEN [retriever |-> r, local |-> InitLocal("raised", <<>>, 0, "no_api_key")]
    ELSE LET loaded == load_data_sources(env)
             docs_all == Normalize(loaded.docs, env.is_win)
             chunks == split_documents(docs_all)
         IN IF loaded.raised
            THEN [retriever |-> r, local |-> InitLocal("raised", loaded.docs, 0, "load_failed")]
            ELSE IF NoChunks(chunks)
            THEN [retriever |-> r, local |-> InitLocal("raised", docs_all, 0, "no_chunks")]
            ELSE IF ~env.embed_ok
            THEN [retriever |-> r,
                  local |-> InitLocal("raised", docs_all, Len(chunks), "embedding_failed")]
            ELSE [retriever |-> RetrieverValue(n + 1),
                  local |-> InitLocal("built", docs_all, Len(chunks), "none")]

\* initialize_session_state(): both histories are created when "messages" is missing
initialize_session_state(m, h) ==
    IF m = Absent THEN [messages |-> List(<<>>), chat_history |-> List(<<>>)]
    ELSE [messages |-> m, chat_history |-> h]

\* the environments a script run can meet: the folder tree (f1 and a
\* sub-folder holding f2), what loading each file and each URL does, the
\* platform, the API key, and whether embedding and indexing succeed
FileNode(name, o) ==
    [kind |-> "file", name |-> name, supported |-> (o # "unsupported"),
     load |-> IF o = "unsupported" THEN "ok" ELSE o]
DirNode(children) == [kind |-> "dir", children |-> children]
FileOutcomes == {"ok", "exotic", "empty", "fail", "unsupported"}
UrlOutcomes == {"ok", "empty", "fail"}
Envs ==
    {[api_key |-> k, top_exists |-> e, is_win |-> w, embed_ok |-> b,
      top |-> DirNode(<<FileNode("f1", o1), DirNode(<<FileNode("f2", o2)>>)>>),
      urls |-> <<[name |-> "u1", load |-> u1], [name |-> "u2", load |-> u2]>>] :
        k \in BOOLEAN, e \in BOOLEAN, w \in BOOLEAN, b \in BOOLEAN,
        o1 \in FileOutcomes, o2 \in FileOutcomes, u1 \in UrlOutcomes, u2 \in UrlOutcomes}
AnyEnv == CHOOSE env \in Envs : TRUE
NoEnv == [api_key |-> FALSE, top_exists |-> FALSE, is_win |-> FALSE, embed_ok |-> FALSE,
          top |-> DirNode(<<>>), urls |-> <<>>]
NoCall == [call |-> InitLocal("no", <<>>, 0, "none"), env |-> NoEnv]

-----------------------------------------------------------------------------
(* utils.py: get_llm_response; main.py: the script run *)

MaxTurns == 2
MaxBuilds == 2

HumanMessage(content) == [t |-> "HumanMessage", content |-> content]

\* get_llm_response extending the history before the chain is invoked
get_llm_response_ExtendsFirst(history, message, outcome) ==
    [raised |-> outcome.raised,
     chat_history |-> List(history.items \o
                           <<HumanMessage(message),
                             IF outcome.raised THEN None ELSE outcome.response["answer"]>>),
     llm_response |-> outcome.response]

\* chain.invoke(...) then chat_history.extend(...): outcome is "raised" or the
\* chain's response; the result is the history afterwards and what is returned
get_llm_response(history, message, outcome) ==
    IF outcome.raised
    THEN [raised |-> TRUE, chat_history |-> history, llm_response |-> EmptyDict]
    ELSE [raised |-> FALSE,
          chat_history |-> List(history.items \o
                                <<HumanMessage(message), outcome.response["answer"]>>),
          llm_response |-> outcome.response]

\* main.py 167-176: the display function of the selected mode
DisplayFor(md, llm) ==
    IF md = ANSWER_MODE_1 THEN display_search_llm_response(llm)
    ELSE display_contact_llm_response(llm)

\* AppendTurn without the user entry
AppendTurn_AssistantOnly(msgs, message, content) ==
    List(msgs.items \o <<[role |-> "assistant", content |-> content]>>)

\* main.py 192-194: the two entries a completed turn appends
AppendTurn(msgs, message, content) ==
    List(msgs.items \o <<[role |-> "user", content |-> message],
                         [role |-> "assistant", content |-> content]>>)

\* what the user can type, and what the chain can return for it
Q1 == Str(<<"q", "1">>)
Q2 == Str(<<"q", "2">>)
Inputs == {Q1, Q2}
ANSWER_TEXT == Str(<<"a", "n", "s", "w", "e", "r">>)
Answers == {ANSWER_TEXT, NO_DOC_MATCH_ANSWER, INQUIRY_NO_MATCH_ANSWER}
Document(meta) == [metadata |-> meta]
PDF_CHUNK == Document([source |-> A_PDF, page |-> Int_(0)])
TXT_CHUNK == Document([source |-> C_TXT])
NO_SOURCE_CHUNK == Document([page |-> Int_(0)])
EMPTY_SOURCE_CHUNK == Document([source |-> EMPTY_STR])
SessionContexts ==
    {<<>>, <<PDF_CHUNK>>, <<NO_SOURCE_CHUNK>>, <<EMPTY_SOURCE_CHUNK>>, <<PDF_CHUNK, TXT_CHUNK>>}
Response(message, context, answer) ==
    [input |-> message, context |-> List(context), answer |-> answer]

\* InitStops with neither st.stop() reached
InitStops_Never(local, r) == FALSE

\* main.py 59-66 and 74-83: the run stops in the except branch when
\* initialize() raised, and at the retriever_ready guard when
\* st.session_state.get("retriever") is None
InitStops(local, r) == local.called = "raised" \/ r = Absent

\* main.py 56-83: initialize(), then the retriever_ready guard
Initialize ==
    /\ pc = "start"
    /\ RetrieverPresent(retriever) \/ built < MaxBuilds
    /\ \E env \in IF RetrieverPresent(retriever) THEN {AnyEnv} ELSE Envs :
         LET hist == initialize_session_state(messages, chat_history)
             init == initialize_retriever(retriever, env, built)
         IN /\ messages' = hist.messages
            /\ chat_history' = hist.chat_history
            /\ retriever' = init.retriever
            /\ init_local' = [call |-> init.local,
                               env |-> IF init.local.called = "returned" THEN NoEnv ELSE env]
            /\ built' = IF init.local.called = "built" THEN built + 1 ELSE built
            /\ pc' = IF InitStops(init.local, init.retriever) THEN "stopped" ELSE "ready"
    /\ UNCHANGED <<mode, chat_message, llm_response, chain_retriever, display_vars, page_vars>>

\* main.py 95-139 with a message submitted: the mode is read from the radio
\* button, the conversation log is replayed (an exception stops the run), the
\* chat input returns the text
ChatSubmit ==
    /\ pc = "ready"
    /\ Len(chat_history.items) < 2 * MaxTurns
    /\ \E md \in {ANSWER_MODE_1, ANSWER_MODE_2}, m \in Inputs :
         /\ mode' = md
         /\ chat_message' = IF display_conversation_log(messages).raised THEN None ELSE m
    /\ pc' = IF display_conversation_log(messages).raised THEN "stopped" ELSE "turn"
    /\ init_local' = NoCall
    /\ UNCHANGED <<messages, chat_history, retriever, llm_response, chain_retriever, built,
                   display_vars, page_vars>>

\* main.py 95-130 with no message submitted: the log is replayed and the run ends
NoInput ==
    /\ pc = "ready"
    /\ \E md \in {ANSWER_MODE_1, ANSWER_MODE_2} : mode' = md
    /\ pc' = IF display_conversation_log(messages).raised THEN "stopped" ELSE "done"
    /\ init_local' = NoCall
    /\ UNCHANGED <<messages, chat_history, retriever, chat_message, llm_response,
                   chain_retriever, built, display_vars, page_vars>>

\* main.py 147-157: utils.get_llm_response(chat_message); an exception stops the run
GetLlmResponse ==
    /\ pc = "turn"
    /\ \E outcome \in {[raised |-> TRUE, response |-> EmptyDict]} \cup
                      {[raised |-> FALSE, response |-> Response(chat_message, c, a)] :
                          c \in SessionContexts, a \in Answers} :
         LET got == get_llm_response(chat_history, chat_message, outcome)
         IN /\ chat_history' = got.chat_history
            /\ llm_response' = got.llm_response
            /\ pc' = IF got.raised THEN "stopped" ELSE "display"
    /\ chain_retriever' = retriever
    /\ UNCHANGED <<messages, retriever, mode, chat_message, init_local, built,
                   display_vars, page_vars>>

\* main.py 162-194: the response is displayed and the turn appended to
\* messages; an exception of the display stops the run before the append
DisplayResponse ==
    /\ pc = "display"
    /\ LET shown == DisplayFor(mode, llm_response)
       IN IF shown.raised
          THEN /\ pc' = "stopped"
               /\ UNCHANGED messages
          ELSE /\ pc' = "done"
               /\ messages' = AppendTurn(messages, chat_message, shown.content)
    /\ UNCHANGED <<chat_history, retriever, mode, chat_message, llm_response,
                   chain_retriever, init_local, built, display_vars, page_vars>>

\* Streamlit runs the script again (after a widget event, or after st.stop())
Rerun ==
    /\ pc \in {"done", "stopped"}
    /\ pc' = "start"
    /\ chat_message' = None
    /\ llm_response' = EmptyDict
    /\ chain_retriever' = Absent
    /\ init_local' = NoCall
    /\ UNCHANGED <<messages, chat_history, retriever, mode, built, display_vars, page_vars>>

SessionInit ==
    /\ messages = Absent
    /\ chat_history = Absent
    /\ retriever = Absent
    /\ mode = Absent
    /\ pc = "start"
    /\ chat_message = None
    /\ llm_response = EmptyDict
    /\ chain_retriever = Absent
    /\ init_local = NoCall
    /\ built = 0

DisplayIdle == dresp = EmptyDict /\ dout = NoOutput
PageIdle == pmeta = EmptyDict /\ pout = NoOutput

Init == SessionInit /\ DisplayIdle /\ PageIdle

Next ==
    \/ Initialize
    \/ ChatSubmit
    \/ NoInput
    \/ GetLlmResponse
    \/ DisplayResponse
    \/ Rerun

Spec == Init /\ [][Next]_vars

InitPage == SessionInit /\ DisplayIdle /\ pmeta \in MetaSet /\ pout = NoOutput

NextPage ==
    \/ ResolvePage
    \/ FormatSource
    \/ DisplayLabel

SpecPage == InitPage /\ [][NextPage]_vars

-----------------------------------------------------------------------------
(* The response displays applied to one retrieval result *)

MaxCtx == 4

DisplayChunks ==
    {Document(DictOf([source |-> s, page |-> pg])) :
        s \in {A_PDF, C_TXT}, pg \in {Absent, Int_(1)}}
    \cup {Document([source |-> WEB_URL]), Document([file_path |-> A_PDF]),
          Document([source |-> EMPTY_STR]),
          Document([source |-> EMPTY_STR, file_path |-> C_TXT])}

SeqsUpTo(S, n) == UNION {[1..k -> S] : k \in 0..n}

DisplayResponses ==
    {Response(Q1, c, a) : c \in SeqsUpTo(DisplayChunks, MaxCtx), a \in Answers}
    \cup {[input |-> Q1, answer |-> a] : a \in Answers}

\* components.display_search_llm_response(dresp)
DisplaySearch ==
    /\ dout = NoOutput
    /\ dout' = [op |-> "search", out |-> display_search_llm_response(dresp)]
    /\ UNCHANGED <<dresp, session_vars, page_vars>>

\* components.display_contact_llm_response(dresp)
DisplayContact ==
    /\ dout = NoOutput
    /\ dout' = [op |-> "contact", out |-> display_contact_llm_response(dresp)]
    /\ UNCHANGED <<dresp, session_vars, page_vars>>

\* main.py 192-194, then components.display_conversation_log() in the next
\* run: the turn just displayed is stored and replayed
ReplayLog ==
    /\ dout # NoOutput
    /\ "replay" \notin DOMAIN dout
    /\ ~dout.out.raised
    /\ dout' = [op |-> dout.op, out |-> dout.out,
                replay |-> display_conversation_log(
                              AppendTurn(List(<<>>), dresp["input"], dout.out.content))]
    /\ UNCHANGED <<dresp, session_vars, page_vars>>

InitDisplay == SessionInit /\ PageIdle /\ dresp \in DisplayResponses /\ dout = NoOutput

NextDisplay ==
    \/ DisplaySearch
    \/ DisplayContact
    \/ ReplayLog

SpecDisplay == InitDisplay /\ [][NextDisplay]_vars

-----------------------------------------------------------------------------
(* Properties *)

Range(q) == {q[i] : i \in 1..Len(q)}
NoRepeats(q) == \A i, j \in 1..Len(q) : i # j => q[i] # q[j]
FirstIndex(q, x) == CHOOSE i \in 1..Len(q) : q[i] = x /\ \A j \in 1..(i - 1) : q[j] # x
\* q lists, without repeats, members of src in the order of their first occurrence
InFirstSeenOrder(q, src) ==
    /\ NoRepeats(q)
    /\ Range(q) \subseteq Range(src)
    /\ \A i, j \in 1..Len(q) : i < j => FirstIndex(src, q[i]) < FirstIndex(src, q[j])

ContextOf(llm) == IF ListTruthy(Get(llm, "context")) THEN llm["context"].items ELSE <<>>
SourcesOf(documents) ==
    [i \in 1..Len(documents) |-> Get(documents[i].metadata, "source")]
LastContent(msgs) == msgs.items[Len(msgs.items)].content

\* a search turn has ended: its display returned or raised
SearchTurnEnded ==
    /\ pc \in {"done", "stopped"}
    /\ llm_response # EmptyDict
    /\ mode = ANSWER_MODE_1

\* C1 (as claimed): a search turn yields the no-match payload whenever the
\* context is empty, the top chunk's source is empty or missing, or the answer
\* is the no-match sentinel; otherwise the payload's main source is chunk[0]'s
\* source, and that source is not empty.
C1_SearchPayload ==
    SearchTurnEnded =>
        LET context == ContextOf(llm_response)
            nomatch == \/ context = <<>>
                       \/ ~Truthy(Get(context[1].metadata, "source"))
                       \/ llm_response["answer"] = NO_DOC_MATCH_ANSWER
        IN /\ pc = "done"
           /\ IF nomatch THEN LastContent(messages) = NoMatchContent
              ELSE /\ "no_file_path_flg" \notin DOMAIN LastContent(messages)
                   /\ LastContent(messages)["main_file_path"] = context[1].metadata["source"]
                   /\ Truthy(LastContent(messages)["main_file_path"])

\* the search display returned a payload naming a main source
SearchMatched ==
    /\ dout # NoOutput
    /\ dout.op = "search"
    /\ ~dout.out.raised
    /\ "main_file_path" \in DOMAIN dout.out.content

SubSources ==
    IF "sub_choices" \in DOMAIN dout.out.content
    THEN [i \in 1..Len(dout.out.content["sub_choices"].items) |->
            dout.out.content["sub_choices"].items[i].source]
    ELSE <<>>

\* C2: the sub-candidates hold each source at most once, in the order of first
\* appearance in chunks[1:], hold every non-empty source of chunks[1:] but the
\* main one, never the main source and never an empty source; de-duplicating
\* the sub-candidates again changes nothing.
C2_SubChoicesDeduplicated ==
    SearchMatched =>
        LET rest == SourcesOf(Tail(ContextOf(dresp)))
            main == dout.out.content["main_file_path"]
            again == SubChoicesLoop([i \in 1..Len(SubSources) |->
                                        Document([source |-> SubSources[i]])],
                                    SeenInit(main), <<>>)
        IN /\ InFirstSeenOrder(SubSources, rest)
           /\ \A i \in 1..Len(rest) :
                Truthy(rest[i]) /\ rest[i] # main => rest[i] \in Range(SubSources)
           /\ main \notin Range(SubSources)
           /\ \A i \in 1..Len(SubSources) : Truthy(SubSources[i])
           /\ [i \in 1..Len(again) |-> again[i].source] = SubSources

\* C2 witness: a context whose tail repeats a source and holds the main source
\* gave two sub-candidates
C2_Witness ==
    /\ SearchMatched
    /\ Len(SubSources) = 2
    /\ Len(ContextOf(dresp)) = 4
    /\ dout.out.content["main_file_path"] \in Range(SourcesOf(Tail(ContextOf(dresp))))

ContactReturned ==
    /\ dout # NoOutput
    /\ dout.op = "contact"
    /\ ~dout.out.raised

\* the source the inquiry display reads from each chunk
CitedSources(documents) ==
    [i \in 1..Len(documents) |->
        PyOr(Get(documents[i].metadata, "source"), Get(documents[i].metadata, "file_path"))]

InfoPaths ==
    [i \in 1..Len(dout.out.content["file_info_list"].items) |->
        dout.out.content["file_info_list"].items[i].path]

\* C3: the inquiry payload has only mode and answer exactly when the answer is
\* the inquiry no-match sentinel; otherwise it also has the message and a
\* source list holding each source once, in first-seen order of the chunks.
C3_InquiryPayload ==
    ContactReturned =>
        LET content == dout.out.content
            cited == CitedSources(ContextOf(dresp))
        IN /\ content["answer"] = dresp["answer"]
           /\ (dresp["answer"] = INQUIRY_NO_MATCH_ANSWER) <=>
                  (DOMAIN content = {"mode", "answer"})
           /\ dresp["answer"] # INQUIRY_NO_MATCH_ANSWER =>
                /\ DOMAIN content = {"mode", "answer", "message", "file_info_list"}
                /\ InFirstSeenOrder(InfoPaths, cited)
                /\ \A i \in 1..Len(cited) : Truthy(cited[i]) => cited[i] \in Range(InfoPaths)

\* C3 witness: an answer other than the sentinel, over chunks repeating a source
C3_Witness ==
    /\ ContactReturned
    /\ dresp["answer"] = ANSWER_TEXT
    /\ Len(ContextOf(dresp)) = 4
    /\ Len(InfoPaths) = 2

\* the no-match payload of the mode: the fixed one in search mode, the
\* answer-only one in inquiry mode
IsNoMatchPayload(content) ==
    IF content["mode"] = ANSWER_MODE_1 THEN content = NoMatchContent
    ELSE DOMAIN content = {"mode", "answer"}

\* C4 (as claimed): no stored payload pairs a non-empty answer with an empty
\* source list; a turn whose retrieval returned no chunk with a usable source,
\* or whose answer is the mode's no-match sentinel, stores the no-match payload.
C4_NoAnswerWithoutSources ==
    /\ messages # Absent =>
         \A i \in 1..Len(messages.items) :
            messages.items[i].role = "assistant" =>
               ~ /\ "file_info_list" \in DOMAIN messages.items[i].content
                 /\ messages.items[i].content["file_info_list"].items = <<>>
                 /\ Truthy(messages.items[i].content["answer"])
    /\ pc = "done" /\ llm_response # EmptyDict =>
         LET cited == CitedSources(ContextOf(llm_response))
             sentinel == IF mode = ANSWER_MODE_1 THEN NO_DOC_MATCH_ANSWER
                         ELSE INQUIRY_NO_MATCH_ANSWER
         IN (\A i \in 1..Len(cited) : ~Truthy(cited[i])) \/ llm_response["answer"] = sentinel
               => IsNoMatchPayload(LastContent(messages))

\* C5 (as claimed): the displayed label of a source ending in .pdf holds the
\* annotation of the page that page-number resolution finds in the chunk's
\* metadata, whenever it finds one; the label of any other source is the bare
\* source.
C5_LabelShowsResolvedPage ==
    pout.op = "display_label" =>
        LET source == Get(pmeta, "source")
            page == get_pdf_page_number(pmeta)
        IN /\ IsPdfPath(source) /\ page # None =>
                Contains(pout.val.s, PageAnnotation(page.n))
           /\ ~IsPdfPath(source) => pout.val = source

\* int() accepts the value of key k of d
Accepts(d, k) == k \in DOMAIN d /\ CanInt(d[k])
\* what a 0-based and a 1-based key give once int() accepted the value
FromZeroBased(v) == IF ToInt(v) >= 0 THEN Int_(ToInt(v) + 1) ELSE None
FromOneBased(v) == IF ToInt(v) >= 1 THEN Int_(ToInt(v)) ELSE None
LocOrder == <<"page_number", "page", "pageIndex", "pageNumber">>

\* C6 (amended): get_pdf_page_number takes the first key, in the order page,
\* page_index, page_number, whose value int() accepts; a key whose value int()
\* rejects falls through.  The accepted value decides the result: value + 1 for
\* a 0-based key and the value itself for page_number, and unknown (None),
\* without trying later keys, when the value is negative (0-based) or below 1
\* (1-based).  With no such direct key the same is done one level into a loc
\* dict (keys page_number, page, pageIndex, pageNumber); otherwise unknown.
C6_PageByPriority ==
    pout.op = "get_pdf_page_number" =>
        LET m == pmeta
            r == pout.val
            direct == Accepts(m, "page") \/ Accepts(m, "page_index") \/ Accepts(m, "page_number")
            loc == Get(m, "loc")
        IN /\ Accepts(m, "page") => r = FromZeroBased(m["page"])
           /\ ~Accepts(m, "page") /\ Accepts(m, "page_index") =>
                r = FromZeroBased(m["page_index"])
           /\ ~Accepts(m, "page") /\ ~Accepts(m, "page_index") /\ Accepts(m, "page_number") =>
                r = FromOneBased(m["page_number"])
           /\ ~direct /\ loc.t = "dict" =>
                /\ \A i \in 1..Len(LocOrder) :
                      /\ Accepts(loc.d, LocOrder[i])
                      /\ \A j \in 1..(i - 1) : ~Accepts(loc.d, LocOrder[j])
                      => r = IF LocOrder[i] \in {"page", "pageIndex"}
                             THEN FromZeroBased(loc.d[LocOrder[i]])
                             ELSE FromOneBased(loc.d[LocOrder[i]])
                /\ (\A i \in 1..Len(LocOrder) : ~Accepts(loc.d, LocOrder[i])) => r = None
           /\ ~direct /\ loc.t # "dict" => r = None

\* C6 witness: a negative page ends the resolution although page_number is usable
C6_Witness ==
    /\ pout.op = "get_pdf_page_number"
    /\ Get(pmeta, "page") = Int_(0 - 1)
    /\ Get(pmeta, "page_number") = Int_(3)
    /\ pout.val = None

\* a key whose value gives a page: int() accepts it and it is in range
UsableZeroBased(d, k) == Accepts(d, k) /\ ToInt(d[k]) >= 0
UsableOneBased(d, k) == Accepts(d, k) /\ ToInt(d[k]) >= 1

\* C6 (as claimed): every present but unusable key falls through to the next
\* rule, so the result is that of the first usable key in priority order.
C6_UnusableFallsThrough ==
    pout.op = "get_pdf_page_number" =>
        LET m == pmeta
            r == pout.val
        IN /\ UsableZeroBased(m, "page") => r = Int_(ToInt(m["page"]) + 1)
           /\ ~UsableZeroBased(m, "page") /\ UsableZeroBased(m, "page_index") =>
                r = Int_(ToInt(m["page_index"]) + 1)
           /\ /\ ~UsableZeroBased(m, "page")
              /\ ~UsableZeroBased(m, "page_index")
              /\ UsableOneBased(m, "page_number")
              => r = Int_(ToInt(m["page_number"]))

\* C7: at most one retriever is ever built; once st.session_state.retriever is
\* set no step changes it; every chain of a chat turn is built on it.
C7_RetrieverBuiltOnce ==
    /\ [](built <= 1)
    /\ [][retriever # Absent => retriever' = retriever]_vars
    /\ [](pc = "display" => chain_retriever = retriever /\ retriever = RetrieverValue(1))

\* C7 witness: a later run of the script found the retriever and returned,
\* after a turn completed on it
C7_Witness ==
    /\ init_local.call.called = "returned"
    /\ built = 1
    /\ Len(messages.items) = 2

\* C8: a turn whose chain call fails ends the run with messages, chat_history
\* and the retriever as they were before the turn.
C8_FailedTurnKeepsState ==
    [][pc = "turn" /\ pc' = "stopped" =>
          /\ messages' = messages
          /\ chat_history' = chat_history
          /\ retriever' = retriever
          /\ llm_response' = EmptyDict]_vars

\* C8 witness: the chain call failed in a turn that followed a completed turn
C8_Witness ==
    /\ pc = "stopped"
    /\ chat_message # None
    /\ llm_response = EmptyDict
    /\ Len(messages.items) = 2
    /\ Len(chat_history.items) = 2

\* C9: when loading, normalizing and chunking gave no chunk, initialize_retriever
\* raised, the run stopped and no retriever is stored; a retriever is stored
\* only by a call that had at least one chunk.
C9_EmptyIndexRaises ==
    /\ /\ init_local.call.called \in {"raised", "built"}
       /\ init_local.call.error \notin {"no_api_key", "load_failed"}
       /\ \A i \in 1..Len(init_local.call.docs_all) : init_local.call.docs_all[i].text = ""
       => /\ init_local.call.called = "raised"
          /\ init_local.call.error = "no_chunks"
          /\ retriever = Absent
          /\ built = 0
          /\ pc = "stopped"
    /\ init_local.call.called = "built" =>
          /\ init_local.call.nchunks > 0
          /\ \E i \in 1..Len(init_local.call.docs_all) : init_local.call.docs_all[i].text # ""

\* C9 witness: documents were loaded, none gave a chunk, and the call raised
C9_Witness ==
    /\ init_local.call.error = "no_chunks"
    /\ Len(init_local.call.docs_all) = 2
    /\ retriever = Absent
    /\ pc = "stopped"

\* the items of env in loading order (files first, then web pages) that are
\* supported and whose load does not raise
LoadableItems(env) ==
    LET f1 == env.top.children[1]
        f2 == env.top.children[2].children[1]
        pick(item, ok) == IF ok THEN <<item.name>> ELSE <<>>
    IN pick(f1, env.top_exists /\ f1.supported /\ f1.load # "fail")
       \o pick(f2, env.top_exists /\ f2.supported /\ f2.load # "fail")
       \o pick(env.urls[1], env.urls[1].load # "fail")
       \o pick(env.urls[2], env.urls[2].load # "fail")

\* C10 (as claimed): an item that fails to load, file or URL, is skipped:
\* load_data_sources returns the documents of every other item, files first,
\* and the failure does not abort the construction of the index.
C10_FailedItemSkipped ==
    init_local.call.called \in {"raised", "built"} /\ init_local.env.api_key =>
        /\ init_local.call.error # "load_failed"
        /\ [i \in 1..Len(init_local.call.docs_all) |-> init_local.call.docs_all[i].source]
              = LoadableItems(init_local.env)

\* C11: for every payload a display function returned, replaying the stored
\* turn renders, in the assistant's block, exactly the elements (messages,
\* labels, icons, in order) the display function rendered live, after the
\* user's block holding the input as the live turn showed it.
C11_ReplayEqualsLive ==
    dout # NoOutput /\ "replay" \in DOMAIN dout =>
        /\ ~dout.replay.raised
        /\ dout.replay.rendered =
              <<[role |-> "user", elements |-> <<Markdown(dresp["input"])>>],
                [role |-> "assistant", elements |-> dout.out.rendered]>>

\* C11 witness: a search payload with a paged main .pdf and sub-candidates, replayed
C11_Witness ==
    /\ dout # NoOutput
    /\ "replay" \in DOMAIN dout
    /\ dout.op = "search"
    /\ "main_page_number" \in DOMAIN dout.out.content
    /\ "sub_choices" \in DOMAIN dout.out.content
    /\ Len(dout.replay.rendered[2].elements) = 5

\* C12: in every run the chat input is reached only after initialize()
\* returned with a retriever in the session; a run whose initialization raised
\* is stopped; a message is accepted only at the chat input; and
\* get_llm_response runs only in a turn so accepted, against a retriever that
\* is present.
C12_InitBarrier ==
    /\ [](pc = "ready" =>
            init_local.call.called \in {"built", "returned"} /\ retriever # Absent)
    /\ [](pc \in {"turn", "display"} => retriever # Absent)
    /\ [](init_local.call.called = "raised" => pc = "stopped")
    /\ [][pc' = "turn" => pc = "ready"]_vars
    /\ [][llm_response' # llm_response /\ llm_response' # EmptyDict =>
            pc = "turn" /\ chain_retriever' # Absent]_vars

\* C12 witness: initialize() raised, no retriever was stored, the run stopped
\* with no message accepted and no response fetched
C12_Witness ==
    /\ init_local.call.called = "raised"
    /\ retriever = Absent
    /\ pc = "stopped"
    /\ chat_message = None
    /\ llm_response = EmptyDict

\* C13: between turns (the run is at its start, at the chat input, ended or
\* stopped) messages and chat_history have the same length, two entries per
\* completed turn, whether the turns before completed or were abandoned.
C13_HistoriesInLockStep ==
    messages # Absent /\ pc \in {"start", "ready", "done", "stopped"} =>
        /\ Len(messages.items) = Len(chat_history.items)
        /\ Len(messages.items) % 2 = 0

\* C14: messages is always a sequence of (user, assistant) pairs, the user
\* entry holding an input as typed and the assistant entry a payload with a
\* mode; a step either leaves messages as it is, creates it empty, or (a
\* completed turn) appends to the unchanged earlier entries one user entry
\* holding the turn's input and one assistant entry whose payload has the mode
\* selected for the turn.
C14_AppendOnlyAlternating ==
    /\ [](messages # Absent =>
            /\ Len(messages.items) % 2 = 0
            /\ \A i \in 1..Len(messages.items) :
                  IF i % 2 = 1
                  THEN /\ messages.items[i].role = "user"
                       /\ messages.items[i].content \in Inputs
                  ELSE /\ messages.items[i].role = "assistant"
                       /\ "mode" \in DOMAIN messages.items[i].content)
    /\ [][\/ messages' = messages
          \/ messages = Absent /\ messages' = List(<<>>)
          \/ /\ messages # Absent
             /\ pc = "display"
             /\ Len(messages'.items) = Len(messages.items) + 2
             /\ SubSeq(messages'.items, 1, Len(messages.items)) = messages.items
             /\ messages'.items[Len(messages.items) + 1] =
                   [role |-> "user", content |-> chat_message]
             /\ messages'.items[Len(messages.items) + 2].role = "assistant"
             /\ messages'.items[Len(messages.items) + 2].content["mode"] = mode]_vars

\* C14 witness: two completed turns in different modes are stored in turn order
C14_Witness ==
    /\ messages # Absent
    /\ Len(messages.items) = 4
    /\ messages.items[1].content = Q1
    /\ messages.items[3].content = Q2
    /\ messages.items[2].content["mode"] = ANSWER_MODE_1
    /\ messages.items[4].content["mode"] = ANSWER_MODE_2

=============================================================================
